---- MODULE Spec2Model ----
(***************************************************************************)
(* RangeTracker of neqo-transport (src/neqo-transport/src/range_tracker.rs) *)
(* as a state machine: the ordered map `used` (offset -> (len, state)),    *)
(* the memoised answer `cached`, and one action per method.  The variables *)
(* op, prev_used, prev_cached and ret record the last call, the tracker    *)
(* before it and the value it returned, so that postconditions are state   *)
(* predicates.  The variable bench is the position of the benchmark        *)
(* driver (benches/range_tracker.rs) and is idle outside BenchSpec.  The   *)
(* variable overflow_checks is the build profile: TRUE where an overflowing *)
(* u64 addition panics (debug builds), FALSE where it wraps (release and   *)
(* bench builds).                                                          *)
(***************************************************************************)
EXTENDS Integers, Sequences, FiniteSets, TLC

VARIABLES used, cached, panicked, op, prev_used, prev_cached, ret, bench,
          overflow_checks

vars == <<used, cached, panicked, op, prev_used, prev_cached, ret, bench,
          overflow_checks>>

\* Offsets and lengths of the calls satisfy off + len <= MaxOff.  Three
\* bytes are enough for a range strictly inside an entry, for a range with
\* an Acked byte in its middle and for three entries that coalesce.
MaxOff == 3

Bytes == 0 .. (MaxOff - 1)

\* Offsets and lengths are u64; the width is scaled down from 64 bits.  No
\* offset of Spec, SpecAcked or BenchSpec reaches 2^OffsetBits.
OffsetBits == 9

\* u64::MAX
U64_MAX == 2^OffsetBits - 1

\* a + b on u64 where overflow is not checked
wrapping_add(a, b) == (a + b) % (U64_MAX + 1)

\* a + b on u64 does not fit and the build checks it: the addition panics
OverflowPanics(a, b) == overflow_checks /\ a + b > U64_MAX

Sent == "Sent"

Acked == "Acked"

RangeState == {Sent, Acked}

\* Option<T>: None is the empty tuple, Some(x) the one-element tuple.
None == << >>

Some(x) == <<x>>

Max(S) == CHOOSE x \in S : \A y \in S : y <= x

Min(S) == CHOOSE x \in S : \A y \in S : x <= y

\* the first argument whatever the second
min_mut(a, b) == a

min(a, b) == IF a < b THEN a ELSE b

saturating_sub(a, b) == IF a > b THEN a - b ELSE 0

RECURSIVE SortedSeq(_)
\* The keys of a BTreeMap range in ascending order.
SortedSeq(S) == IF S = {} THEN << >> ELSE <<Min(S)>> \o SortedSeq(S \ {Min(S)})

\* ---- BTreeMap<u64, (u64, RangeState)> ----

Entry(len, state) == [len |-> len, state |-> state]

EmptyMap == [k \in {} |-> Entry(0, Sent)]

insert(tree, k, v) == [x \in (DOMAIN tree) \cup {k} |-> IF x = k THEN v ELSE tree[x]]

remove(tree, k) == [x \in (DOMAIN tree) \ {k} |-> tree[x]]

\* ---- queries ----

\* the key of the last entry without its length
highest_offset_mut(tree) ==
  IF DOMAIN tree = {} THEN 0 ELSE Max(DOMAIN tree)

\* .next() in place of .next_back(): the end of the first entry
highest_offset_first(tree) ==
  IF DOMAIN tree = {} THEN 0
  ELSE LET k == Min(DOMAIN tree) IN k + tree[k].len

highest_offset(tree) ==
  IF DOMAIN tree = {} THEN 0
  ELSE LET k == Max(DOMAIN tree) IN k + tree[k].len

acked_from_zero_mut(tree) ==
  IF 0 \in DOMAIN tree THEN tree[0].len ELSE 0

\* .get(&0).filter(|(_, state)| *state == RangeState::Acked).map_or(0, |(v, _)| *v)
acked_from_zero(tree) ==
  IF 0 \in DOMAIN tree /\ tree[0].state = Acked THEN tree[0].len ELSE 0

Gap_mut(cur_off, prev_end) == cur_off

\* cur_off - prev_end, the length of the hole found by the walk (line 77)
Gap(cur_off, prev_end) == cur_off - prev_end

RECURSIVE FindGap(_, _, _, _)
\* The loop of first_unmarked_range over the entries in ascending order.
FindGap(tree, keys, i, prev_end) ==
  IF i > Len(keys) THEN [val |-> <<prev_end, None>>, ok |-> TRUE]
  ELSE LET cur_off == keys[i]
           cur_len == tree[cur_off].len
       IN IF prev_end = cur_off
          THEN FindGap(tree, keys, i + 1, cur_off + cur_len)
          ELSE [val |-> <<prev_end, Some(Gap(cur_off, prev_end))>>,
                ok  |-> cur_off >= prev_end]

\* first_unmarked_range(&mut self): the value returned, the cache left
\* behind, and whether the unsigned subtraction stayed in range.
first_unmarked_range(tree, cache) ==
  IF cache # None
  THEN [ret |-> cache[1], cached |-> cache, ok |-> TRUE]
  ELSE LET r == FindGap(tree, SortedSeq(DOMAIN tree), 1, 0)
       IN [ret |-> r.val, cached |-> Some(r.val), ok |-> r.ok]

\* ---- chunk_range_on_edges ----

Overlap_mut(prev_off, prev_len, new_off) == 0

\* (*prev_off + *prev_len).saturating_sub(new_off)
Overlap(prev_off, prev_len, new_off) == saturating_sub(prev_off + prev_len, new_off)

\* "cut previous overlapping range if needed"
LeftSplit(tree, new_off) ==
  LET before == {k \in DOMAIN tree : k < new_off} IN
  IF before = {} THEN [tree |-> tree, ok |-> TRUE]
  ELSE LET prev_off   == Max(before)
           prev_len   == tree[prev_off].len
           prev_state == tree[prev_off].state
           overlap    == Overlap(prev_off, prev_len, new_off)
           shrunk     == insert(tree, prev_off, Entry(prev_len - overlap, prev_state))
       IN [tree |-> IF overlap > 0
                    THEN insert(shrunk, new_off, Entry(overlap, prev_state))
                    ELSE shrunk,
           ok   |-> overlap <= prev_len]

DowngradeAttempt_mut(new_state, state) == FALSE

\* new_state == RangeState::Sent && *state == RangeState::Acked
DowngradeAttempt(new_state, state) == new_state = Sent /\ state = Acked

\* One iteration of the loop over the entries inside the new range.
\* acc = [tmp_off, tmp_len, v, last_existing_remaining, ok]; ok is false
\* once tmp_len -= sub_len or len - sub_len went below zero.
WalkStep(acc, off, len, state, new_state) ==
  LET hole     == acc.tmp_off < off
      hole_len == off - acc.tmp_off
      v1       == IF hole THEN Append(acc.v, <<acc.tmp_off, hole_len, new_state>>) ELSE acc.v
      off1     == IF hole THEN acc.tmp_off + hole_len ELSE acc.tmp_off
      len1     == IF hole THEN acc.tmp_len - hole_len ELSE acc.tmp_len
      sub_len  == min(len, len1)
      remaining_len == len - sub_len
      v2       == IF DowngradeAttempt(new_state, state)
                  THEN v1
                  ELSE Append(v1, <<off1, sub_len, new_state>>)
  IN [tmp_off |-> off1 + sub_len,
      tmp_len |-> len1 - sub_len,
      v       |-> v2,
      last_existing_remaining |->
          IF remaining_len > 0
          THEN Some(<<off, sub_len, remaining_len, state>>)
          ELSE acc.last_existing_remaining,
      ok      |-> acc.ok /\ len1 >= 0 /\ remaining_len >= 0 /\ len1 - sub_len >= 0]

RECURSIVE MiddleWalk(_, _, _, _, _)
\* for (off, (len, state)) in self.used.tree.range(tmp_off..tmp_off + tmp_len)
MiddleWalk(tree, keys, i, acc, new_state) ==
  IF i > Len(keys) THEN acc
  ELSE MiddleWalk(tree, keys, i + 1,
                  WalkStep(acc, keys[i], tree[keys[i]].len, tree[keys[i]].state, new_state),
                  new_state)

\* the entry is cut but the part beyond the new range is not inserted
RightSplit_mut(tree, last_existing_remaining) ==
  IF last_existing_remaining = None THEN [tree |-> tree, ok |-> TRUE]
  ELSE [tree |-> insert(tree, last_existing_remaining[1][1],
                        Entry(last_existing_remaining[1][2], last_existing_remaining[1][4])),
        ok   |-> last_existing_remaining[1][1] \in DOMAIN tree]

\* "Maybe break last existing range in two"
RightSplit(tree, last_existing_remaining) ==
  IF last_existing_remaining = None THEN [tree |-> tree, ok |-> TRUE]
  ELSE LET off           == last_existing_remaining[1][1]
           sub_len       == last_existing_remaining[1][2]
           remaining_len == last_existing_remaining[1][3]
           state         == last_existing_remaining[1][4]
       IN [tree |-> insert(insert(tree, off, Entry(sub_len, state)),
                           off + sub_len, Entry(remaining_len, state)),
           ok   |-> off \in DOMAIN tree]

FinalChunk_mut(v, tmp_off, tmp_len, new_state) == v

\* "Create final chunk if anything remains of the new range"
FinalChunk(v, tmp_off, tmp_len, new_state) ==
  IF tmp_len > 0 THEN Append(v, <<tmp_off, tmp_len, new_state>>) ELSE v

chunk_range_on_edges(tree, new_off, new_len, new_state) ==
  LET left  == LeftSplit(tree, new_off)
      keys  == SortedSeq({k \in DOMAIN left.tree : new_off <= k /\ k < new_off + new_len})
      acc0  == [tmp_off |-> new_off, tmp_len |-> new_len, v |-> << >>,
                last_existing_remaining |-> None, ok |-> TRUE]
      acc   == MiddleWalk(left.tree, keys, 1, acc0, new_state)
      right == RightSplit(left.tree, acc.last_existing_remaining)
  IN [tree |-> right.tree,
      v    |-> FinalChunk(acc.v, acc.tmp_off, acc.tmp_len, new_state),
      ok   |-> left.ok /\ acc.ok /\ right.ok /\ ~OverflowPanics(new_off, new_len)]

\* ---- coalesce_acked_from_zero ----

RECURSIVE ContiguousAcked_anystate(_, _, _)
\* the loop without .filter(|(_, state)| *state == RangeState::Acked)
ContiguousAcked_anystate(tree, new_len_from_zero, to_remove) ==
  IF new_len_from_zero \in DOMAIN tree /\ tree[new_len_from_zero].len > 0
  THEN ContiguousAcked_anystate(tree, new_len_from_zero + tree[new_len_from_zero].len,
                                to_remove \cup {new_len_from_zero})
  ELSE [new_len_from_zero |-> new_len_from_zero, to_remove |-> to_remove]

\* "if let" in place of "while let": one merge only
ContiguousAcked_once(tree, new_len_from_zero, to_remove) ==
  IF new_len_from_zero \in DOMAIN tree /\ tree[new_len_from_zero].state = Acked
  THEN [new_len_from_zero |-> new_len_from_zero + tree[new_len_from_zero].len,
        to_remove |-> to_remove \cup {new_len_from_zero}]
  ELSE [new_len_from_zero |-> new_len_from_zero, to_remove |-> to_remove]

RECURSIVE ContiguousAcked(_, _, _)
\* The while loop: follows the Acked entries whose key is the running end
\* of the prefix; returns the keys to remove and the new length.  On an
\* entry of length 0 the loop of the source would not advance; the len > 0
\* conjunct ends the unrolling there (no reachable map holds such an entry).
ContiguousAcked(tree, new_len_from_zero, to_remove) ==
  IF new_len_from_zero \in DOMAIN tree /\ tree[new_len_from_zero].state = Acked
     /\ tree[new_len_from_zero].len > 0
  THEN ContiguousAcked(tree, new_len_from_zero + tree[new_len_from_zero].len,
                       to_remove \cup {new_len_from_zero})
  ELSE [new_len_from_zero |-> new_len_from_zero, to_remove |-> to_remove]

coalesce_acked_from_zero_mut(tree) == tree

coalesce_acked_from_zero(tree) ==
  IF 0 \in DOMAIN tree /\ tree[0].state = Acked
  THEN LET len_from_zero == tree[0].len
           r == ContiguousAcked(tree, len_from_zero, {})
           rewritten == IF len_from_zero # r.new_len_from_zero
                        THEN insert(tree, 0, Entry(r.new_len_from_zero, Acked))
                        ELSE tree
       IN [k \in (DOMAIN rewritten) \ r.to_remove |-> rewritten[k]]
  ELSE tree

\* ---- mark_range ----

RECURSIVE InsertChunks(_, _, _)
\* for (sub_off, sub_len, sub_state) in subranges { insert }
InsertChunks(tree, v, i) ==
  IF i > Len(v) THEN tree
  ELSE InsertChunks(insert(tree, v[i][1], Entry(v[i][2], v[i][3])), v, i + 1)

InvalidateCache_mut(cache) == cache

\* self.cached = None
InvalidateCache(cache) == None

\* mark_range without the early return for len == 0
mark_range_noreturn(tree, cache, off, len, state) ==
  LET c == chunk_range_on_edges(tree, off, len, state)
  IN [used   |-> coalesce_acked_from_zero(InsertChunks(c.tree, c.v, 1)),
      cached |-> InvalidateCache(cache),
      ok     |-> c.ok]

\* mark_range(&mut self, off, len, state) on the tracker (tree, cache)
mark_range(tree, cache, off, len, state) ==
  IF len = 0 THEN [used |-> tree, cached |-> cache, ok |-> TRUE]
  ELSE LET c == chunk_range_on_edges(tree, off, len, state)
       IN [used   |-> coalesce_acked_from_zero(InsertChunks(c.tree, c.v, 1)),
           cached |-> InvalidateCache(cache),
           ok     |-> c.ok]

\* ---- unmark_range ----

TrimmedLen_mut(cur_off, cur_len, off) == cur_len

\* one byte short
TrimmedLen_offby(cur_off, cur_len, off) == off - cur_off - 1

\* *cur_len = off - cur_off
TrimmedLen(cur_off, cur_len, off) == off - cur_off

IsAcked_mut(cur_state) == FALSE

\* *cur_state == RangeState::Acked
IsAcked(cur_state) == cur_state = Acked

RECURSIVE ReverseWalk(_, _, _, _, _, _)
\* for (cur_off, (cur_len, cur_state)) in self.used.tree.range_mut(..off + len).rev()
\* keys is in descending order; acc = [tree, to_remove, to_add, ok]
ReverseWalk(tree, keys, i, off, len, acc) ==
  IF i > Len(keys) THEN acc
  ELSE LET cur_off     == keys[i]
           cur_len     == tree[cur_off].len
           cur_state   == tree[cur_off].state
           end_off     == wrapping_add(off, len)
           cur_end_off == cur_off + cur_len
       IN IF cur_off < off
          THEN \* fix up the range preceding the removed range, then break
               IF cur_off + cur_len > off /\ ~IsAcked(cur_state)
               THEN [acc EXCEPT !.tree = insert(acc.tree, cur_off,
                                   Entry(TrimmedLen(cur_off, cur_len, off), cur_state))]
               ELSE acc
          ELSE IF IsAcked(cur_state)
          THEN \* continue
               ReverseWalk(tree, keys, i + 1, off, len, acc)
          ELSE ReverseWalk(tree, keys, i + 1, off, len,
                 [acc EXCEPT
                    !.to_add = IF cur_end_off > end_off
                               THEN Some(<<wrapping_add(off, len), cur_end_off - end_off,
                                           cur_state>>)
                               ELSE @,
                    !.ok = @ /\ (cur_end_off > end_off => acc.to_add = None),
                    !.to_remove = @ \cup {cur_off}])

\* unmark_range(&mut self, off, len) on the tracker (tree, cache)
unmark_range(tree, cache, off, len) ==
  IF len = 0 THEN [used |-> tree, cached |-> cache, ok |-> TRUE]
  ELSE LET keys == SortedSeq({k \in DOMAIN tree : k < wrapping_add(off, len)})
           desc == [j \in 1 .. Len(keys) |-> keys[Len(keys) + 1 - j]]
           acc  == ReverseWalk(tree, desc, 1, off, len,
                     [tree |-> tree, to_remove |-> {}, to_add |-> None, ok |-> TRUE])
           removed == [k \in (DOMAIN acc.tree) \ acc.to_remove |-> acc.tree[k]]
       IN [used   |-> IF acc.to_add = None THEN removed
                      ELSE insert(removed, acc.to_add[1][1],
                                  Entry(acc.to_add[1][2], acc.to_add[1][3])),
           cached |-> InvalidateCache(cache),
           ok     |-> acc.ok /\ ~OverflowPanics(off, len)]

\* unmark_sent(&mut self)
unmark_sent(tree, cache) == unmark_range(tree, cache, 0, highest_offset(tree))

\* ---- the tracker as a state machine ----

NoArgs(name) == [name |-> name, off |-> 0, len |-> 0, state |-> "-"]

\* The benchmark driver is not running.
NoBench == [pc |-> "-", prefix |-> FALSE, B |-> 0, N |-> 0, i |-> 0]

\* RangeTracker::default().  No sum of this specification reaches
\* 2^OffsetBits, so both build profiles behave alike here.
Init ==
  /\ used = EmptyMap
  /\ cached = None
  /\ panicked = FALSE
  /\ op = NoArgs("default")
  /\ prev_used = EmptyMap
  /\ prev_cached = None
  /\ ret = None
  /\ bench = NoBench
  /\ overflow_checks = FALSE

\* The tracker before the call; the build profile never changes.
Remember ==
  /\ prev_used' = used
  /\ prev_cached' = cached
  /\ overflow_checks' = overflow_checks

MarkRange ==
  /\ ~panicked
  /\ \E off \in 0 .. MaxOff : \E len \in 0 .. (MaxOff - off) : \E state \in RangeState :
       LET r == mark_range(used, cached, off, len, state) IN
         /\ used' = r.used
         /\ cached' = r.cached
         /\ panicked' = ~r.ok
         /\ op' = [name |-> "mark_range", off |-> off, len |-> len, state |-> state]
  /\ ret' = None
  /\ Remember
  /\ UNCHANGED bench

UnmarkRange ==
  /\ ~panicked
  /\ \E off \in 0 .. MaxOff : \E len \in 0 .. (MaxOff - off) :
       LET r == unmark_range(used, cached, off, len) IN
         /\ used' = r.used
         /\ cached' = r.cached
         /\ panicked' = ~r.ok
         /\ op' = [name |-> "unmark_range", off |-> off, len |-> len, state |-> "-"]
  /\ ret' = None
  /\ Remember
  /\ UNCHANGED bench

UnmarkSent ==
  /\ ~panicked
  /\ LET r == unmark_sent(used, cached) IN
       /\ used' = r.used
       /\ cached' = r.cached
       /\ panicked' = ~r.ok
  /\ op' = [name |-> "unmark_sent", off |-> 0, len |-> highest_offset(used), state |-> "-"]
  /\ ret' = None
  /\ Remember
  /\ UNCHANGED bench

FirstUnmarkedRange ==
  /\ ~panicked
  /\ LET r == first_unmarked_range(used, cached) IN
       /\ cached' = r.cached
       /\ ret' = Some(r.ret)
       /\ panicked' = ~r.ok
  /\ used' = used
  /\ op' = NoArgs("first_unmarked_range")
  /\ Remember
  /\ UNCHANGED bench

Next == MarkRange \/ UnmarkRange \/ UnmarkSent \/ FirstUnmarkedRange

Spec == Init /\ [][Next]_vars

\* ---- acknowledgements only: mark_range(_, _, Acked) in any order ----

MarkAcked ==
  /\ ~panicked
  /\ \E off \in 0 .. MaxOff : \E len \in 0 .. (MaxOff - off) :
       LET r == mark_range(used, cached, off, len, Acked) IN
         /\ used' = r.used
         /\ cached' = r.cached
         /\ panicked' = ~r.ok
         /\ op' = [name |-> "mark_range", off |-> off, len |-> len, state |-> Acked]
  /\ ret' = None
  /\ Remember
  /\ UNCHANGED bench

NextAcked == MarkAcked \/ FirstUnmarkedRange

SpecAcked == Init /\ [][NextAcked]_vars

\* ---- the coalescing benchmark: build_coalesce(len) then coalesce ----

\* Block sizes 1 .. BenchMaxB (1000 in the benchmark).
BenchMaxB == 2

\* build_coalesce(len) for len in 1 .. BenchMaxN (1, 100 and 1000 in the
\* benchmark); above SentBlocks the acknowledgements run past the Sent range.
BenchMaxN == 102

\* used.mark_range(1000, 100000, Sent): the Sent range is 100 blocks long
SentBlocks == 100

\* One mark_range call of the driver.
BenchMark(off, len, state) ==
  /\ ~panicked
  /\ LET r == mark_range(used, cached, off, len, state) IN
       /\ used' = r.used
       /\ cached' = r.cached
       /\ panicked' = ~r.ok
  /\ op' = [name |-> "mark_range", off |-> off, len |-> len, state |-> state]
  /\ ret' = None
  /\ Remember

\* let mut used = RangeTracker::default(), for each block size and count.
\* pc = "ack0" is build_coalesce as written; pc = "sent" is the same
\* workload without its first mark_range(0, 1000, Acked).
BenchInit ==
  /\ used = EmptyMap
  /\ cached = None
  /\ panicked = FALSE
  /\ op = NoArgs("default")
  /\ prev_used = EmptyMap
  /\ prev_cached = None
  /\ ret = None
  /\ overflow_checks = FALSE
  /\ \E B \in 1 .. BenchMaxB : \E N \in 1 .. BenchMaxN : \E prefix \in BOOLEAN :
       bench = [pc |-> IF prefix THEN "ack0" ELSE "sent",
                prefix |-> prefix, B |-> B, N |-> N, i |-> 0]

\* used.mark_range(0, 1000, RangeState::Acked)
BuildAckZero ==
  /\ bench.pc = "ack0"
  /\ BenchMark(0, bench.B, Acked)
  /\ bench' = [bench EXCEPT !.pc = "sent"]

\* used.mark_range(1000, 100000, RangeState::Sent)
BuildSent ==
  /\ bench.pc = "sent"
  /\ BenchMark(bench.B, SentBlocks * bench.B, Sent)
  /\ bench' = [bench EXCEPT !.pc = "loop", !.i = 1]

\* for i in 1 .. len { used.mark_range((i+1) * 1000, 1000, RangeState::Acked) }
BuildLoop ==
  /\ bench.pc = "loop"
  /\ bench.i < bench.N
  /\ BenchMark((bench.i + 1) * bench.B, bench.B, Acked)
  /\ bench' = [bench EXCEPT !.i = @ + 1]

\* coalesce(&mut used): used.mark_range(1000, 1000, RangeState::Acked)
Coalesce ==
  /\ bench.pc = "loop"
  /\ bench.i >= bench.N
  /\ BenchMark(bench.B, bench.B, Acked)
  /\ bench' = [bench EXCEPT !.pc = "done"]

BenchNext == BuildAckZero \/ BuildSent \/ BuildLoop \/ Coalesce

BenchSpec == BenchInit /\ [][BenchNext]_vars

\* ---- calls at the top of the offset space, in either build ----

\* Lengths of the calls at the top of the offset space.
WrapMaxLen == 2

\* Offset 0 and the last two offsets: ranges that end at u64::MAX, ranges
\* that end beyond it, and an entry at key 0 below the wrapped end.
WrapOffs == {0, U64_MAX - 1, U64_MAX}

\* RangeTracker::default() in a debug or in a release build
InitWrap ==
  /\ used = EmptyMap
  /\ cached = None
  /\ panicked = FALSE
  /\ op = NoArgs("default")
  /\ prev_used = EmptyMap
  /\ prev_cached = None
  /\ ret = None
  /\ bench = NoBench
  /\ overflow_checks \in BOOLEAN

\* mark_range(off, len, state).  With off + len > u64::MAX the checked
\* build panics on tmp_off + tmp_len; the unchecked build calls
\* tree.range(start..end) with end < start, whose result is decided inside
\* btree_slab, so that call is made in the checked build only.
MarkRangeWrap ==
  /\ ~panicked
  /\ \E off \in WrapOffs : \E len \in 0 .. WrapMaxLen : \E state \in RangeState :
       /\ off + len <= U64_MAX \/ overflow_checks
       /\ LET r == mark_range(used, cached, off, len, state) IN
            /\ used' = r.used
            /\ cached' = r.cached
            /\ panicked' = ~r.ok
            /\ op' = [name |-> "mark_range", off |-> off, len |-> len, state |-> state]
  /\ ret' = None
  /\ Remember
  /\ UNCHANGED bench

\* unmark_range(off, len), off + len above u64::MAX included
UnmarkRangeWrap ==
  /\ ~panicked
  /\ \E off \in WrapOffs : \E len \in 0 .. WrapMaxLen :
       LET r == unmark_range(used, cached, off, len) IN
         /\ used' = r.used
         /\ cached' = r.cached
         /\ panicked' = ~r.ok
         /\ op' = [name |-> "unmark_range", off |-> off, len |-> len, state |-> "-"]
  /\ ret' = None
  /\ Remember
  /\ UNCHANGED bench

NextWrap == MarkRangeWrap \/ UnmarkRangeWrap \/ UnmarkSent

SpecWrap == InitWrap /\ [][NextWrap]_vars

\* ---- byte-level view of the map ----

StateIn(tree, b, s) ==
  \E k \in DOMAIN tree : tree[k].state = s /\ k <= b /\ b < k + tree[k].len

AckedAt(tree, b) == StateIn(tree, b, Acked)

SentAt(tree, b) == StateIn(tree, b, Sent)

Unmarked(tree, b) == ~AckedAt(tree, b) /\ ~SentAt(tree, b)

InRange(b, off, len) == off <= b /\ b < off + len

TypeOK ==
  /\ DOMAIN used \subseteq Bytes
  /\ \A k \in DOMAIN used : used[k].state \in RangeState /\ used[k].len \in 0 .. MaxOff
  /\ panicked \in BOOLEAN

\* ---- properties ----

IsMark == op.name = "mark_range" /\ op.len > 0

IsUnmark == op.name \in {"unmark_range", "unmark_sent"} /\ op.len > 0

\* C1: Acked is absorbing: a byte covered by an Acked entry is covered by
\* an Acked entry after every later mark_range, unmark_range, unmark_sent.
C1_AckedAbsorbing ==
  [][\A b \in Bytes : AckedAt(used, b) => AckedAt(used', b)]_vars

\* An unmark ran over Acked bytes, which stayed, and over Sent bytes.
C1_Witness ==
  /\ ~panicked
  /\ IsUnmark
  /\ \E b \in Bytes : InRange(b, op.off, op.len) /\ AckedAt(prev_used, b) /\ AckedAt(used, b)
  /\ \E b \in Bytes : InRange(b, op.off, op.len) /\ SentAt(prev_used, b)

\* C2: Disjointness: two entries with keys o1 < o2 satisfy o1 + l1 <= o2.
C2_Disjoint ==
  \A o1, o2 \in DOMAIN used : o1 < o2 => o1 + used[o1].len <= o2

\* A mark_range that split one entry on both edges of the new range.
C2_Witness ==
  /\ IsMark
  /\ Cardinality(DOMAIN prev_used) = 1
  /\ \E k \in DOMAIN prev_used :
       /\ k < op.off
       /\ op.off + op.len < k + prev_used[k].len
       /\ prev_used[k].state = Sent
       /\ op.state = Acked
  /\ Cardinality(DOMAIN used) = 3

\* C3: unmark_range inside one Sent entry (k, l), k < off and
\* off + len < k + l, leaves k -> (off - k, Sent) and
\* off+len -> (k + l - (off+len), Sent) and nothing in between, and
\* first_unmarked_range then names the hole.
C3_InteriorUnmarkSplits ==
  (/\ op.name = "unmark_range"
   /\ op.len > 0
   /\ DOMAIN prev_used = {0}
   /\ prev_used[0].state = Sent
   /\ 0 < op.off
   /\ op.off + op.len < prev_used[0].len)
  => /\ DOMAIN used = {0, op.off + op.len}
     /\ used[0] = Entry(op.off, Sent)
     /\ used[op.off + op.len] = Entry(prev_used[0].len - (op.off + op.len), Sent)
     /\ first_unmarked_range(used, cached).ret = <<op.off, Some(op.len)>>

\* C4: after unmark_range(off, len), len > 0, no byte of [off, off+len) is
\* Sent and every byte of it that was Acked is still Acked.
C4_UnmarkRemovesSentKeepsAcked ==
  IsUnmark =>
    \A b \in Bytes : InRange(b, op.off, op.len) =>
       /\ ~SentAt(used, b)
       /\ AckedAt(prev_used, b) => AckedAt(used, b)

\* An unmark_range that starts inside a Sent entry and also covers Acked bytes.
C4_Witness ==
  /\ op.name = "unmark_range"
  /\ op.len > 0
  /\ \E k \in DOMAIN prev_used :
       prev_used[k].state = Sent /\ k < op.off /\ op.off < k + prev_used[k].len
  /\ \E b \in Bytes : InRange(b, op.off, op.len) /\ AckedAt(prev_used, b)

\* C5: mark_range(off, len, Acked) makes every byte of the range Acked;
\* mark_range(off, len, Sent) makes every byte of the range that was not
\* Acked Sent and leaves the Acked bytes Acked, also when the Acked bytes
\* lie in the middle of the new range.
C5_MarkPostcondition ==
  IsMark =>
    \A b \in Bytes : InRange(b, op.off, op.len) =>
       IF op.state = Acked \/ AckedAt(prev_used, b)
       THEN AckedAt(used, b) /\ ~SentAt(used, b)
       ELSE SentAt(used, b) /\ ~AckedAt(used, b)

\* A Sent mark whose range has Acked bytes in its middle and bytes that
\* were not Acked on both sides of them.
C5_Witness ==
  /\ IsMark
  /\ op.state = Sent
  /\ \E b1, b2, b3 \in Bytes :
       /\ op.off <= b1 /\ b1 < b2 /\ b2 < b3 /\ b3 < op.off + op.len
       /\ Unmarked(prev_used, b1) /\ AckedAt(prev_used, b2) /\ Unmarked(prev_used, b3)
       /\ SentAt(used, b1) /\ AckedAt(used, b2) /\ SentAt(used, b3)

\* C6: Coalesced prefix: if the entry at key 0 is Acked with length L then
\* no Acked entry sits at key L.
C6_CoalescedPrefix ==
  (0 \in DOMAIN used /\ used[0].state = Acked) =>
     ~(used[0].len \in DOMAIN used /\ used[used[0].len].state = Acked)

\* mark_range(0, len, Acked) met an Acked entry at key len and merged it.
C6_Witness ==
  /\ IsMark
  /\ op.state = Acked
  /\ op.off = 0
  /\ op.len \in DOMAIN prev_used
  /\ prev_used[op.len].state = Acked
  /\ acked_from_zero(used) > op.len

\* The contiguous Acked prefix counted byte by byte.
AckedPrefix(tree) ==
  Max({n \in 0 .. (MaxOff + 1) : \A b \in 0 .. (n - 1) : AckedAt(tree, b)})

\* C7: acked_from_zero() is the largest n such that every offset in [0, n)
\* is Acked.
C7_AckedFromZeroIsPrefix ==
  acked_from_zero(used) = AckedPrefix(used)

\* An Acked mark away from offset 0 closed a hole and the prefix grew by
\* more than the mark's length.
C7_Witness ==
  /\ IsMark
  /\ op.state = Acked
  /\ op.off > 0
  /\ acked_from_zero(prev_used) > 0
  /\ acked_from_zero(used) > acked_from_zero(prev_used) + op.len

\* first_unmarked_range computed from the bytes: the lowest unmarked offset
\* below highest_offset() and the length of the unmarked run from there.
FirstHole(tree) ==
  LET h     == highest_offset(tree)
      holes == {b \in 0 .. (h - 1) : Unmarked(tree, b)}
  IN IF holes = {} THEN <<h, None>>
     ELSE LET s == Min(holes)
              ends == {n \in 1 .. h : ~Unmarked(tree, s + n)}
              g == IF ends = {} THEN h - s ELSE Min(ends)
          IN <<s, Some(g)>>

\* C8: first_unmarked_range() returns (s, Some(g)) for the lowest unmarked
\* offset s below highest_offset() and its maximal unmarked run of g bytes,
\* and (highest_offset(), None) when there is none.
C8_FirstUnmarkedRange ==
  /\ ~panicked => first_unmarked_range(used, cached).ret = FirstHole(used)
  /\ (op.name = "first_unmarked_range" /\ ~panicked) => ret = Some(FirstHole(used))
  /\ used = EmptyMap => first_unmarked_range(used, cached).ret = <<0, None>>

\* A call that walked the map and found a hole after a marked prefix.
C8_Witness ==
  /\ op.name = "first_unmarked_range"
  /\ prev_cached = None
  /\ ret # None
  /\ ret[1][1] > 0
  /\ ret[1][2] # None
  /\ ret[1][1] + ret[1][2][1] < highest_offset(used)

CacheCoherent ==
  cached = None \/ cached = Some(FindGap(used, SortedSeq(DOMAIN used), 1, 0).val)

\* C9: Cache coherence: cached is None or the value the walk over the
\* current map computes, and two consecutive first_unmarked_range calls
\* return the same result.
C9_CacheCoherence ==
  /\ []CacheCoherent
  /\ [][(op.name = "first_unmarked_range" /\ op'.name = "first_unmarked_range")
         => ret' = ret]_vars

\* A call answered from the cache that an earlier call filled.
C9_Witness ==
  /\ op.name = "first_unmarked_range"
  /\ prev_cached # None
  /\ ret = prev_cached
  /\ DOMAIN used # {}

SentInsideAcked ==
  /\ IsMark
  /\ op.state = Sent
  /\ \A b \in Bytes : InRange(b, op.off, op.len) => AckedAt(prev_used, b)

\* C10: mark_range(off, len, Sent) inside Acked coverage leaves `used`
\* equal to the map before the call, wherever the Acked region is.
C10_SentInsideAckedNoOp ==
  SentInsideAcked => used = prev_used

\* C10 as amended: the call changes no byte's state and no Sent entry; the
\* map is equal to the map before when the range lies in the Acked prefix
\* anchored at 0, and elsewhere differs at most by Acked entries cut at the
\* edges of the range.
C10_SentInsideAckedKeepsBytes ==
  SentInsideAcked =>
    /\ \A b \in Bytes : /\ AckedAt(used, b) <=> AckedAt(prev_used, b)
                        /\ SentAt(used, b) <=> SentAt(prev_used, b)
    /\ \A k \in DOMAIN prev_used : k \in DOMAIN used /\ used[k].state = prev_used[k].state
    /\ \A k \in DOMAIN prev_used : prev_used[k].state = Sent => used[k] = prev_used[k]
    /\ \A k \in (DOMAIN used) \ (DOMAIN prev_used) :
          used[k].state = Acked /\ k \in {op.off, op.off + op.len}
    /\ op.off + op.len <= acked_from_zero(prev_used) => used = prev_used

\* A Sent mark strictly inside the prefix anchored at 0, which is cut at
\* both edges and merged again.
C10_Witness ==
  /\ SentInsideAcked
  /\ 0 < op.off
  /\ op.off + op.len < acked_from_zero(prev_used)
  /\ used = prev_used

\* C11: Acked ranges whose union is exactly [0, n), marked on an empty
\* tracker in any order and with any overlap, end in the map
\* {0 -> (n, Acked)} with acked_from_zero() = n.  (Under SpecAcked every
\* marked byte is a byte of one of the Acked ranges applied so far.)
C11_AckedUnionMerges ==
  \A n \in 1 .. MaxOff :
    (\A b \in 0 .. MaxOff : ~Unmarked(used, b) <=> b < n)
      => /\ used = (0 :> Entry(n, Acked))
         /\ acked_from_zero(used) = n

\* A mark at offset 0 of ranges applied out of order: it overlaps an entry,
\* meets two Acked entries behind it and leaves the single entry.
C11_Witness ==
  /\ IsMark
  /\ op.off = 0
  /\ Cardinality(DOMAIN prev_used) >= 2
  /\ 0 \notin DOMAIN prev_used
  /\ \E k \in DOMAIN prev_used : k < op.len
  /\ used = (0 :> Entry(MaxOff, Acked))

RECURSIVE SumAcked(_, _)
\* The total length of the Acked entries with keys in ks.
SumAcked(tree, ks) ==
  IF ks = {} THEN 0
  ELSE LET k == CHOOSE x \in ks : TRUE
       IN (IF tree[k].state = Acked THEN tree[k].len ELSE 0) + SumAcked(tree, ks \ {k})

AckedTotal(tree) == SumAcked(tree, DOMAIN tree)

\* C12: the workload from the empty tracker, mark (B, 100*B, Sent), mark
\* ((i+1)*B, B, Acked) for i in 1..N, then mark (B, B, Acked), ends with
\* acked_from_zero() equal to the total acknowledged length and a single
\* entry at key 0.
C12_BenchCoalesces ==
  (bench.pc = "done" /\ ~bench.prefix) =>
     /\ acked_from_zero(used) = AckedTotal(used)
     /\ DOMAIN used = {0}

\* C12 as amended: build_coalesce as written, with its first
\* mark (0, B, Acked).  Before the last call the prefix is B long; the last
\* call merges every Acked entry into the entry at key 0 of length
\* (N+1)*B, which is the total acknowledged length; it is the only entry
\* when N >= 100, and is followed by the rest of the Sent range otherwise.
C12_BenchCoalescesFromAckedZero ==
  (bench.pc = "done" /\ bench.prefix) =>
     /\ ~panicked
     /\ acked_from_zero(prev_used) = bench.B
     /\ acked_from_zero(used) = (bench.N + 1) * bench.B
     /\ acked_from_zero(used) = AckedTotal(used)
     /\ IF bench.N >= SentBlocks
        THEN DOMAIN used = {0}
        ELSE /\ DOMAIN used = {0, (bench.N + 1) * bench.B}
             /\ used[(bench.N + 1) * bench.B] = Entry((SentBlocks - bench.N) * bench.B, Sent)

\* The last call of a run whose acknowledgements ran past the Sent range:
\* it met more than SentBlocks entries and left one.
C12_Witness ==
  /\ bench.pc = "done"
  /\ bench.prefix
  /\ bench.B > 1
  /\ bench.N > SentBlocks
  /\ Cardinality(DOMAIN prev_used) > SentBlocks
  /\ DOMAIN used = {0}

\* C13: after unmark_sent() the map holds no Sent entry and exactly the
\* Acked entries it held before, with the same keys and lengths.
C13_UnmarkSentKeepsAcked ==
  op.name = "unmark_sent" =>
    /\ \A k \in DOMAIN used : used[k].state = Acked
    /\ DOMAIN used = {k \in DOMAIN prev_used : prev_used[k].state = Acked}
    /\ \A k \in DOMAIN used : used[k] = prev_used[k]

\* unmark_sent on a map with two Sent entries around an Acked one.
C13_Witness ==
  /\ op.name = "unmark_sent"
  /\ \E k1, k2, k3 \in DOMAIN prev_used :
       /\ k1 < k2 /\ k2 < k3
       /\ prev_used[k1].state = Sent
       /\ prev_used[k2].state = Acked
       /\ prev_used[k3].state = Sent
  /\ Cardinality(DOMAIN used) = 1

\* C14: unmark_sent is idempotent: a second unmark_sent right after the
\* first leaves `used` as the first left it.
C14_UnmarkSentIdempotent ==
  [][(op.name = "unmark_sent" /\ op'.name = "unmark_sent") => used' = used]_vars

\* unmark_sent ran over a map without Sent entries, as a second call
\* does, walked its Acked entries and left it as it was.
C14_Witness ==
  /\ op.name = "unmark_sent"
  /\ op.len > 1
  /\ DOMAIN used # {}
  /\ used = prev_used

MarkedSentInHole ==
  /\ IsMark
  /\ op.state = Sent
  /\ \A b \in Bytes : InRange(b, op.off, op.len) => Unmarked(prev_used, b)

\* C15: Inverse: mark_range(o, n, Sent) over unmarked bytes followed by
\* unmark_range(o, n) leaves `used` equal to the map before the two calls.
C15_MarkUnmarkInverse ==
  [][(/\ MarkedSentInHole
      /\ op'.name = "unmark_range"
      /\ op'.off = op.off
      /\ op'.len = op.len) => used' = prev_used]_vars

\* An unmark_range that took away exactly one Sent entry lying between a
\* Sent entry that ends where it starts and an entry that starts where it
\* ends.
C15_Witness ==
  /\ op.name = "unmark_range"
  /\ op.len > 0
  /\ op.off \in DOMAIN prev_used
  /\ prev_used[op.off] = Entry(op.len, Sent)
  /\ used = remove(prev_used, op.off)
  /\ \E k \in DOMAIN used : used[k].state = Sent /\ k + used[k].len = op.off
  /\ op.off + op.len \in DOMAIN used

\* The largest offset + length over all entries.
MaxEnd(tree) ==
  IF DOMAIN tree = {} THEN 0
  ELSE Max({k + tree[k].len : k \in DOMAIN tree})

\* C16: highest_offset() is 0 for an empty map and otherwise the largest
\* offset + length over all entries, and no mark_range makes it smaller.
C16_HighestOffset ==
  /\ highest_offset(used) = MaxEnd(used)
  /\ op.name = "mark_range" => highest_offset(used) >= highest_offset(prev_used)

\* A mark_range that ends inside the last entry and cuts it in two.
C16_Witness ==
  /\ IsMark
  /\ DOMAIN prev_used # {}
  /\ LET k == Max(DOMAIN prev_used) IN
       /\ k <= op.off
       /\ op.off + op.len < k + prev_used[k].len
       /\ op.off + op.len \in DOMAIN used
  /\ highest_offset(used) = highest_offset(prev_used)

\* C17: the tracker never fails: no call hits assert_eq!(to_add, None), an
\* expect("must be there") on a missing key, or an unsigned subtraction
\* below zero (prev_len -= overlap, tmp_len -= sub_len, cur_off - prev_end).
C17_NeverFails == ~panicked

\* An unmark_range that re-inserted the part of a Sent entry beyond its
\* range, the one place where assert_eq!(to_add, None) is evaluated.
C17_Witness ==
  /\ ~panicked
  /\ op.name = "unmark_range"
  /\ op.len > 0
  /\ \E k \in DOMAIN prev_used :
       /\ prev_used[k].state = Sent
       /\ op.off <= k /\ k < op.off + op.len
       /\ op.off + op.len < k + prev_used[k].len
  /\ op.off + op.len \in DOMAIN used

IsMutator == op.name \in {"mark_range", "unmark_range", "unmark_sent"}

\* C18: after any call of mark_range, unmark_range or unmark_sent, whatever
\* the arguments and the prior state, cached is None.
C18_MutatorClearsCache == IsMutator => cached = None

\* C18 as amended: cached is None after mark_range and unmark_range with
\* len > 0 and after unmark_sent on a non-empty map; a zero-length call and
\* unmark_sent on an empty map leave cached as it was.
C18_MutatorClearsCacheUnlessEmpty ==
  IsMutator => IF op.len > 0 THEN cached = None ELSE cached = prev_cached

\* A mutator with len > 0 that found the cache filled.
C18_Witness ==
  /\ IsMutator
  /\ op.len > 0
  /\ prev_cached # None
  /\ cached = None

\* C19: mark_range(off, 0, state) and unmark_range(off, 0) leave `used`
\* and `cached` exactly as they were.
C19_ZeroLengthIgnored ==
  (op.name \in {"mark_range", "unmark_range"} /\ op.len = 0) =>
     /\ used = prev_used
     /\ cached = prev_cached

\* A zero-length call at an offset inside an entry, with the cache filled.
C19_Witness ==
  /\ op.name \in {"mark_range", "unmark_range"}
  /\ op.len = 0
  /\ cached # None
  /\ cached = prev_cached
  /\ \E k \in DOMAIN used : k < op.off /\ op.off < k + used[k].len

\* C20: Length positivity: every entry of `used` has length >= 1.
C20_LengthPositive == \A k \in DOMAIN used : used[k].len >= 1

\* An unmark_range that trimmed a Sent entry down to one byte.
C20_Witness ==
  /\ op.name = "unmark_range"
  /\ \E k \in DOMAIN prev_used :
       /\ prev_used[k].state = Sent
       /\ k < op.off /\ op.off < k + prev_used[k].len
       /\ k \in DOMAIN used
       /\ used[k].len = 1

SameByteState(b) ==
  /\ AckedAt(used, b) <=> AckedAt(prev_used, b)
  /\ SentAt(used, b) <=> SentAt(prev_used, b)

\* C22: unmark_range(off, len) changes nothing outside its range: every
\* byte not in [off, off+len) keeps its state, also the bytes at and
\* beyond off+len of a Sent entry that starts before off.
C22_UnmarkFrame ==
  (op.name = "unmark_range" /\ op.len > 0) =>
     \A b \in Bytes : ~InRange(b, op.off, op.len) => SameByteState(b)

\* C23: mark_range(off, len, state) changes nothing outside its range:
\* every byte not in [off, off+len) keeps its state through the left
\* split, the right split and the coalescing.
C23_MarkFrame ==
  IsMark => \A b \in Bytes : ~InRange(b, op.off, op.len) => SameByteState(b)

\* An Acked mark strictly inside a Sent entry: both splits ran and left
\* Sent entries on either side of the new range.
C23_Witness ==
  /\ IsMark
  /\ op.state = Acked
  /\ \E k \in DOMAIN prev_used :
       /\ prev_used[k].state = Sent
       /\ k < op.off
       /\ op.off + op.len < k + prev_used[k].len
       /\ used[k] = Entry(op.off - k, Sent)
       /\ op.off + op.len \in DOMAIN used
       /\ used[op.off + op.len].state = Sent

\* The chunks and the re-partitioned map of the last mark_range call.
LastChunks == chunk_range_on_edges(prev_used, op.off, op.len, op.state)

ChunkInHole(tree, c) ==
  \A b \in c[1] .. (c[1] + c[2] - 1) : Unmarked(tree, b)

ChunkOnEntry(tree, c) ==
  c[1] \in DOMAIN tree /\ tree[c[1]].len = c[2]

\* C24: Chunk alignment: every chunk returned by chunk_range_on_edges lies
\* inside [new_off, new_off+new_len), the chunks are ascending and
\* disjoint, each one covers only unmarked bytes of the re-partitioned map
\* or has the key and length of one of its entries, and none lies over an
\* Acked entry when new_state is Sent.
C24_ChunkAlignment ==
  IsMark =>
    LET c == LastChunks IN
      /\ \A i \in 1 .. Len(c.v) :
           /\ c.v[i][2] >= 1
           /\ op.off <= c.v[i][1]
           /\ c.v[i][1] + c.v[i][2] <= op.off + op.len
           /\ c.v[i][3] = op.state
           /\ ChunkInHole(c.tree, c.v[i]) \/ ChunkOnEntry(c.tree, c.v[i])
           /\ op.state = Sent =>
                \A b \in c.v[i][1] .. (c.v[i][1] + c.v[i][2] - 1) : ~AckedAt(c.tree, b)
      /\ \A i \in 1 .. (Len(c.v) - 1) : c.v[i][1] + c.v[i][2] <= c.v[i + 1][1]

\* A Sent mark that starts inside a Sent entry and ends in the hole
\* behind it: a chunk on the entry made by the left split, a chunk in the
\* hole.
C24_Witness ==
  /\ IsMark
  /\ op.state = Sent
  /\ LET c == LastChunks IN
       /\ Len(c.v) = 2
       /\ ChunkOnEntry(c.tree, c.v[1])
       /\ ChunkInHole(c.tree, c.v[2])
       /\ c.v[1][1] \notin DOMAIN prev_used

\* C25: acked_from_zero() never decreases from one call to the next.
C25_AckedFromZeroMonotone ==
  [][acked_from_zero(used') >= acked_from_zero(used)]_vars

\* A Sent mark and then an unmark inside the Acked prefix: the second ran
\* on a prefix that the first had cut and merged again.
C25_Witness ==
  /\ op.name = "unmark_range"
  /\ op.len > 0
  /\ 0 < op.off
  /\ op.off + op.len < acked_from_zero(prev_used)
  /\ acked_from_zero(used) = acked_from_zero(prev_used)

\* ---- offset arithmetic at u64::MAX ----

\* Every entry of a tracker that has not panicked ends inside the offset
\* space, so key + length in highest_offset does not overflow.
EntriesInOffsetSpace ==
  ~panicked => \A k \in DOMAIN used : k + used[k].len <= U64_MAX

\* The last call asked for a range that ends beyond u64::MAX.
OverflowingCall ==
  /\ op.name \in {"mark_range", "unmark_range"}
  /\ op.len > 0
  /\ op.off + op.len > U64_MAX

\* C21: offset arithmetic does not silently wrap: a mark_range or
\* unmark_range whose off + len exceeds u64::MAX aborts, and no stored
\* entry ends beyond u64::MAX.
C21_NoSilentWrap ==
  /\ OverflowingCall => panicked
  /\ EntriesInOffsetSpace

====
